---- MODULE Spec2Model ----
(***************************************************************************)
(* Gesture classification engine of backend/gesture_engine.py:            *)
(* the time-windowed trajectory buffer (history_x, history_y,             *)
(* history_time), the swipe / pinch decision of _detect_gestures and the  *)
(* cooldown gate on last_trigger_time.                                    *)
(*                                                                         *)
(* Time is counted in ticks of 0.05 s (time_window 0.3 s = 6 ticks,       *)
(* cooldown 0.75 s = 15 ticks); positions and distances are pixels.       *)
(* Confidence is kept as a percentage (confidence * 100), so that         *)
(* min(abs(d) / 100, 1.0) is the integer Min(Abs(d), 100).                *)
(***************************************************************************)
EXTENDS Integers, Sequences, FiniteSets

\* ------------------------------------------------------------------ bounds
\* Frames are taken for MaxTime ticks after the engine is constructed.
MaxTime == 8
\* A clock reading of time.time() later than any cooldown after the clock's
\* origin; the engine is constructed at the origin or at Epoch.
Epoch == 16
\* Largest number of samples the buffer may hold when a hand is processed.
MaxHist == 3
\* Ticks between two clock readings that differ (frames 0.1 s apart).
FramePeriod == 2

\* Largest pinch distance handed to the action controller, in pixels.
MaxPinch == 300
\* Most process_loop threads started in a run.
MaxLoops == 3
\* Most events handed to gesture_callback and logged in a run.
MaxEvents == 52

\* --------------------------------------------------------------- constants
\* GestureType values
NONE == "none"
SWIPE_LEFT == "swipe_left"
SWIPE_RIGHT == "swipe_right"
SWIPE_UP == "swipe_up"
SWIPE_DOWN == "swipe_down"
PINCH == "pinch"

GestureType == {NONE, SWIPE_LEFT, SWIPE_RIGHT, SWIPE_UP, SWIPE_DOWN, PINCH}

\* "swipe" in detected_gesture.value
IsSwipe(g) == g \in {SWIPE_LEFT, SWIPE_RIGHT, SWIPE_UP, SWIPE_DOWN}

\* GestureConfig(): swipe_threshold 100 px, time_window 0.3 s, cooldown 0.75 s
GestureConfig ==
    [swipe_threshold |-> 100, time_window |-> 6, cooldown |-> 15, max_hands |-> 2]

\* The configuration built from the settings "swipe_sensitivity" and
\* "cooldown"; time_window and max_hands keep their defaults.
SettingsConfig(sensitivity, cd) ==
    [swipe_threshold |-> sensitivity, time_window |-> 6, cooldown |-> cd,
     max_hands |-> 2]

\* Configurations handed to update_config: the defaults and a more sensitive,
\* faster setting (threshold 50 px, cooldown 0.1 s).
Configs == {GestureConfig, SettingsConfig(50, 2)}

\* The hard-coded upper pinch distance of _detect_gestures (pixels).
PinchLimit == 250

\* Palm-centre pixel positions (landmark 9) a hand may be seen at: three on a
\* horizontal line (50, 100 and 150 px apart) and one 75 px off it on a
\* diagonal, so that abs(dx) = abs(dy) occurs.
PalmPoints == {<<100, 100>>, <<150, 100>>, <<250, 100>>, <<175, 175>>}
\* Thumb-tip minus index-tip offsets in pixels: distances 200 and 250.
PinchOffsets == {<<120, 160>>, <<150, 200>>}
Labels == {"Left", "Right"}

\* One hand observation of a frame, in pixel space.
Hands ==
    {[label |-> l, cx |-> p[1], cy |-> p[2], pinch |-> o] :
        l \in Labels, p \in PalmPoints, o \in PinchOffsets}

\* Ghost value: no swipe has been emitted yet.
NoTime == -1

\* self.on_gesture before a callback is registered
None == "None"

\* ActionConfig(): every control category enabled
ActionConfig ==
    [desktop_control |-> TRUE, volume_control |-> TRUE,
     brightness_control |-> TRUE]

\* The configurations the settings endpoint can install.
ActionConfigs ==
    [desktop_control : BOOLEAN, volume_control : BOOLEAN,
     brightness_control : BOOLEAN]

\* state.max_log_size
max_log_size == 50

\* The kinds of the events handed to gesture_callback, in turn: the n-th
\* event that is not of kind NONE has kind KindOf(n).
LoggedKinds == <<SWIPE_LEFT, PINCH, SWIPE_RIGHT, SWIPE_UP, SWIPE_DOWN>>

\* The kind of the n-th event logged.
KindOf(n) == LoggedKinds[((n - 1) % Len(LoggedKinds)) + 1]

\* Ghost value: gesture_callback has not been called yet.
NoEvent == [gesture |-> "", hand_label |-> ""]

\* Levels handed to set_volume and set_brightness.
Levels == {-10, 0, 42, 100, 150}

\* Ghost value: no method of the controller has been called yet.
NoCall == [method |-> "none", level |-> 0, returned |-> FALSE, issued |-> "none"]

\* Defaults of adjust_volume_by_pinch / adjust_brightness_by_pinch
min_dist == 30
max_dist == 200

\* Pinch distances of the events handed to gesture_callback.
CallbackDistances == {115, max_dist}

\* Pinch distances handed to the controller.
PinchDistances == {0, 10, min_dist, 31, 115, 199, max_dist, MaxPinch}

\* ----------------------------------------------------------------- helpers
Abs(n) == IF n < 0 THEN -n ELSE n

Min(a, b) == IF a < b THEN a ELSE b

\* The largest r in lo..hi with r * r <= n, by bisection.
RECURSIVE RootBetween(_, _, _)
RootBetween(n, lo, hi) ==
    IF lo = hi THEN lo
    ELSE LET mid == (lo + hi + 1) \div 2
         IN  IF mid * mid <= n THEN RootBetween(n, mid, hi)
             ELSE RootBetween(n, lo, mid - 1)

\* math.hypot on pixel offsets, rounded down to a whole pixel.
Hypot(a, b) == RootBetween(a * a + b * b, 0, Abs(a) + Abs(b))

\* The three history lists as one value.
History(hx, hy, ht) == [x |-> hx, y |-> hy, t |-> ht]

\* One sample per frame: the sample of a later hand of the frame takes the
\* place of the earlier hand's (mutation of AppendSample).
AppendSamplePerFrame(h, cx, cy, t) ==
    LET n == Len(h.t)
        keep == IF n > 0 /\ h.t[n] = t THEN n - 1 ELSE n
    IN  History(Append(SubSeq(h.x, 1, keep), cx),
                Append(SubSeq(h.y, 1, keep), cy),
                Append(SubSeq(h.t, 1, keep), t))

\* The sample put in front of the lists instead of at their end (mutation of
\* AppendSample).
AppendSampleInFront(h, cx, cy, t) ==
    History(<<cx>> \o h.x, <<cy>> \o h.y, <<t>> \o h.t)

\* history_x.append(cx); history_y.append(cy); history_time.append(t)
AppendSample(h, cx, cy, t) ==
    History(Append(h.x, cx), Append(h.y, cy), Append(h.t, t))

\* while history_time and t - history_time[0] > time_window: pop(0) x3
RECURSIVE PruneLoop(_, _, _)
PruneLoop(h, t, tw) ==
    IF h.t # <<>> /\ t - Head(h.t) > tw
    THEN PruneLoop(History(Tail(h.x), Tail(h.y), Tail(h.t)), t, tw)
    ELSE h

\* A buffer of fixed capacity two: after the loop the oldest samples beyond
\* the newest two are dropped as well (mutation of Prune).
PruneCapped(h, t, tw) ==
    LET p == PruneLoop(h, t, tw)
        n == Len(p.t)
        from == IF n > 2 THEN n - 1 ELSE 1
    IN  History(SubSeq(p.x, from, n), SubSeq(p.y, from, n), SubSeq(p.t, from, n))

\* A single pop instead of the loop (mutation of Prune).
PruneOnce(h, t, tw) ==
    IF h.t # <<>> /\ t - Head(h.t) > tw
    THEN History(Tail(h.x), Tail(h.y), Tail(h.t))
    ELSE h

Prune(h, t, tw) == PruneLoop(h, t, tw)

\* _clear_history
EmptyHistory == History(<<>>, <<>>, <<>>)

\* The gate left out (mutation of CooldownPassed).
CooldownIgnored(t, last, cd) == TRUE

\* if current_time - self.last_trigger_time > self.config.cooldown
CooldownPassed(t, last, cd) == t - last > cd

\* Non-strict thresholds (mutation of SwipeOf).
SwipeOfInclusive(dx, dy, threshold) ==
    IF Abs(dx) > Abs(dy)
    THEN IF dx >= threshold THEN SWIPE_RIGHT
         ELSE IF dx <= -threshold THEN SWIPE_LEFT
         ELSE NONE
    ELSE IF dy <= -threshold THEN SWIPE_UP
         ELSE IF dy >= threshold THEN SWIPE_DOWN
         ELSE NONE

\* The horizontal / vertical decision on the displacement (dx, dy).
SwipeOf(dx, dy, threshold) ==
    IF Abs(dx) > Abs(dy)
    THEN IF dx > threshold THEN SWIPE_RIGHT
         ELSE IF dx < -threshold THEN SWIPE_LEFT
         ELSE NONE
    ELSE IF dy < -threshold THEN SWIPE_UP
         ELSE IF dy > threshold THEN SWIPE_DOWN
         ELSE NONE

\* The confidence without the cap at 1.0 (mutation of SwipeConfidence).
SwipeConfidenceUncapped(dx, dy) ==
    IF Abs(dx) > Abs(dy) THEN Abs(dx) ELSE Abs(dy)

\* confidence = min(abs(d) / 100, 1.0) of the dominant axis, in percent
SwipeConfidence(dx, dy) ==
    IF Abs(dx) > Abs(dy) THEN Min(Abs(dx), 100) ELSE Min(Abs(dy), 100)

\* -------------------------------------------------------------------- state
VARIABLES
    config,             \* self.config
    history_x,          \* self.history_x
    history_y,          \* self.history_y
    history_time,       \* self.history_time
    last_trigger_time,  \* self.last_trigger_time
    last_frame_time,    \* self.last_frame_time (current_time of the frame)
    pc,                 \* position of process_frame: "idle", "hands" or,
                        \* left by an exception, "raised"
    hands_left,         \* hands of the current frame not yet processed
    gestures,           \* the list of GestureResult of the current frame
    swipe_at,           \* ghost: time of the latest emitted swipe
    evicted,            \* ghost: samples popped by the latest prune loop
    on_gesture,         \* self.on_gesture: None or the registered callback
    delivered,          \* ghost: results on_gesture was called with in the
                        \* current process_frame call, in call order
    replay              \* ghost: hands of the previous frame still to be fed
                        \* again (empty unless a frame is being repeated)

\* The engine's own fields and the position of process_frame.
engine_vars == <<config, history_x, history_y, history_time, last_trigger_time,
                 last_frame_time, pc, hands_left, gestures, swipe_at, evicted,
                 on_gesture, delivered, replay>>

VARIABLES
    action_config,      \* state.action_controller.config
    current_volume,     \* ActionController.current_volume
    current_brightness, \* ActionController.current_brightness
    calls,              \* ghost: the latest two adjust_*_by_pinch calls, each
                        \* with its argument and the level it returned
    last_call           \* ghost: the latest call of next_desktop,
                        \* prev_desktop, new_desktop, set_volume or
                        \* set_brightness: its argument, what it returned and
                        \* the operating-system call it made ("none" if none)

\* The fields of the ActionController.
action_vars == <<action_config, current_volume, current_brightness, calls,
                 last_call>>

VARIABLES
    is_running,         \* state.is_running
    process_thread,     \* state._process_thread: 0 for None, else the index
                        \* in loops of the thread it refers to
    loops,              \* one entry per process_loop thread ever started:
                        \* its position, "test" (at while state.is_running),
                        \* "read" (in read_frame), "frame" (in process_frame
                        \* and the broadcast after it) or "done" (returned)
    camera,             \* camera_manager.current_camera is an open capture
    handler,            \* where the server's event loop is: "none" (between
                        \* requests), "join" (stop_gesture_detection waiting
                        \* in join), "rejoin" (the same inside
                        \* update_settings), "restart" (update_settings
                        \* between its stop and its start)
    retired             \* ghost: the loops started before a
                        \* stop_gesture_detection that has returned

\* The fields of AppState that start and stop use, and the loop threads.
lifecycle_vars == <<is_running, process_thread, loops, camera, handler, retired>>

VARIABLES
    gesture_log,        \* state.gesture_log: one entry per logged event, its
                        \* gesture and, standing for its timestamp, the
                        \* number of the event among those logged
    logged,             \* ghost: events gesture_callback has logged so far
    last_event          \* ghost: the result gesture_callback was called with
                        \* most recently

\* The log of AppState.
log_vars == <<gesture_log, logged, last_event>>

VARIABLES
    dc_history_x,       \* history_x of desktop_control.py
    dc_history_y,       \* history_y of desktop_control.py
    dc_history_time,    \* history_time of desktop_control.py
    dc_last_trigger_time, \* last_trigger_time of desktop_control.py
    dc_action           \* ghost: the action desktop_control.py triggered for
                        \* the latest hand, "none" if none

\* The module-level variables of the standalone loop desktop_control.py.
standalone_vars == <<dc_history_x, dc_history_y, dc_history_time,
                     dc_last_trigger_time, dc_action>>

vars == <<engine_vars, action_vars, lifecycle_vars, log_vars,
          standalone_vars>>

\* GestureEngine.__init__
Init ==
    /\ config = GestureConfig
    /\ history_x = <<>>
    /\ history_y = <<>>
    /\ history_time = <<>>
    /\ last_trigger_time = 0
    /\ last_frame_time \in {0, Epoch}
    /\ pc = "idle"
    /\ hands_left = 0
    /\ gestures = <<>>
    /\ swipe_at = NoTime
    /\ evicted = 0
    /\ on_gesture = None
    /\ delivered = <<>>
    /\ replay = <<>>
    /\ action_config = ActionConfig
    /\ current_volume = 50
    /\ current_brightness = 50
    /\ calls = <<>>
    /\ last_call = NoCall
    /\ is_running = FALSE
    /\ process_thread = 0
    /\ loops = <<>>
    /\ camera = FALSE
    /\ handler = "none"
    /\ retired = {}
    /\ gesture_log = <<>>
    /\ logged = 0
    /\ last_event = NoEvent
    /\ dc_history_x = <<>>
    /\ dc_history_y = <<>>
    /\ dc_history_time = <<>>
    /\ dc_last_trigger_time = 0
    /\ dc_action = "none"

\* state.gesture_engine.on_gesture = gesture_callback, done by
\* start_gesture_detection before the processing loop is started
SetCallback ==
    /\ on_gesture = None
    /\ on_gesture' = "gesture_callback"
    /\ UNCHANGED <<config, history_x, history_y, history_time,
                   last_trigger_time, last_frame_time, pc, hands_left,
                   gestures, swipe_at, evicted, delivered, replay>>
    /\ UNCHANGED <<action_vars, lifecycle_vars, log_vars, standalone_vars>>

\* The buffer after update_config(c): the method assigns self.config and
\* self.hands and nothing else.
HistoryOnUpdate(h, c, now) == h

\* The cooldown reset by a new configuration (mutation of TriggerOnUpdate).
TriggerOnUpdateReset(last, c) == 0

\* last_trigger_time after update_config(c)
TriggerOnUpdate(last, c) == last

\* GestureEngine.update_config(c) for a c of the set offered
UpdateConfigTo(offered) ==
    /\ \E c \in offered :
          /\ c # config
          /\ config' = c
          /\ LET kept == HistoryOnUpdate(
                             History(history_x, history_y, history_time),
                             c, last_frame_time)
             IN  /\ history_x' = kept.x
                 /\ history_y' = kept.y
                 /\ history_time' = kept.t
          /\ last_trigger_time' = TriggerOnUpdate(last_trigger_time, c)
    /\ UNCHANGED <<last_frame_time, pc, hands_left, gestures, swipe_at,
                   evicted, on_gesture, delivered, replay>>
    /\ UNCHANGED <<action_vars, lifecycle_vars, log_vars, standalone_vars>>

\* GestureEngine.update_config, called by the settings endpoint
UpdateConfig == UpdateConfigTo(Configs)

\* process_frame up to the loop over the hands: read the clock, run the
\* hand tracker (n hands found, n one of counts).
ProcessFrameWith(counts) ==
    /\ pc = "idle"
    /\ on_gesture # None
    /\ \E k \in 0..(MaxTime \div FramePeriod), n \in counts :
        LET t == last_frame_time + k * FramePeriod
        IN
        /\ t <= MaxTime + (IF last_frame_time >= Epoch THEN Epoch ELSE 0)
        /\ Len(history_time) + n <= MaxHist
        /\ last_frame_time' = t
        /\ hands_left' = n
        /\ pc' = IF n > 0 THEN "hands" ELSE "idle"
    /\ gestures' = <<>>
    /\ delivered' = <<>>
    /\ UNCHANGED <<config, history_x, history_y, history_time,
                   last_trigger_time, swipe_at, evicted, on_gesture, replay>>

\* process_frame entered with a frame showing up to max_hands hands.  The
\* processing loop calls it only after start_gesture_detection has
\* registered the callback.
BeginFrame ==
    /\ ProcessFrameWith(0..config.max_hands)
    /\ UNCHANGED <<action_vars, lifecycle_vars, log_vars, standalone_vars>>

\* The GestureResult _detect_gestures returns for a hand at time t, given
\* the buffer h before the call.
DetectResult(hand, h, last, cfg, t) ==
    LET pinch_dist == Hypot(hand.pinch[1], hand.pinch[2])
        tracked == Prune(AppendSample(h, hand.cx, hand.cy, t), t, cfg.time_window)
        n == Len(tracked.x)
        dx == IF n >= 2 THEN tracked.x[n] - tracked.x[1] ELSE 0
        dy == IF n >= 2 THEN tracked.y[n] - tracked.y[1] ELSE 0
        open == CooldownPassed(t, last, cfg.cooldown)
        swipe == IF open /\ n >= 2 THEN SwipeOf(dx, dy, cfg.swipe_threshold)
                 ELSE NONE
        detected == IF swipe # NONE THEN swipe
                    ELSE IF open /\ pinch_dist < PinchLimit THEN PINCH
                    ELSE NONE
    IN  [gesture |-> detected,
         confidence |-> IF IsSwipe(detected) THEN SwipeConfidence(dx, dy)
                        ELSE IF detected = PINCH THEN 100 ELSE 0,
         hand_label |-> hand.label,
         landmarks |-> [palm |-> <<hand.cx, hand.cy>>, pinch |-> hand.pinch],
         pinch_distance |-> pinch_dist,
         timestamp |-> t]

\* A vertical swipe that forgets _clear_history (mutation of DetectHistory).
DetectHistoryKeepVertical(hand, h, result, cfg, t) ==
    IF result.gesture \in {SWIPE_LEFT, SWIPE_RIGHT} THEN EmptyHistory
    ELSE Prune(AppendSample(h, hand.cx, hand.cy, t), t, cfg.time_window)

\* _clear_history on every event, a pinch included (mutation of
\* DetectHistory).
DetectHistoryClearOnEvent(hand, h, result, cfg, t) ==
    IF result.gesture # NONE THEN EmptyHistory
    ELSE Prune(AppendSample(h, hand.cx, hand.cy, t), t, cfg.time_window)

\* The buffer _detect_gestures leaves behind.
DetectHistory(hand, h, result, cfg, t) ==
    IF IsSwipe(result.gesture) THEN EmptyHistory
    ELSE Prune(AppendSample(h, hand.cx, hand.cy, t), t, cfg.time_window)

\* Every processed hand arms the cooldown (mutation of NextTrigger).
NextTriggerAlways(result, t, last) == t

\* Every event, a pinch included, arms the cooldown (mutation of
\* NextTrigger).
NextTriggerOnEvent(result, t, last) == IF result.gesture # NONE THEN t ELSE last

\* if "swipe" in detected_gesture.value: self.last_trigger_time = current_time
NextTrigger(result, t, last) == IF IsSwipe(result.gesture) THEN t ELSE last

\* Only results of a kind other than NONE appended (mutation of Collect).
CollectNonNone(gs, result) ==
    IF result.gesture # NONE THEN Append(gs, result) ELSE gs

\* if gesture_result: gestures.append(gesture_result); a GestureResult
\* object is always true, so every result is appended.
Collect(gs, result) == Append(gs, result)

\* The callback called for every result (mutation of ShouldNotify).
ShouldNotifyAlways(callback, result) == callback # None

\* if self.on_gesture and gesture_result.gesture != GestureType.NONE
ShouldNotify(callback, result) == callback # None /\ result.gesture # NONE

\* One iteration of the loop of process_frame: _detect_gestures on the next
\* hand, the result appended to the list the frame returns and handed to
\* the callback; cfg is what its reads of self.config return.
DetectStep(seen, cfg) ==
    /\ pc = "hands"
    /\ hands_left > 0
    /\ \E hand \in (IF replay = <<>> THEN seen ELSE {Head(replay)}) :
        LET h == History(history_x, history_y, history_time)
            t == last_frame_time
            result == DetectResult(hand, h, last_trigger_time, cfg, t)
            after == DetectHistory(hand, h, result, cfg, t)
        IN  /\ history_x' = after.x
            /\ history_y' = after.y
            /\ history_time' = after.t
            /\ last_trigger_time' = NextTrigger(result, t, last_trigger_time)
            /\ swipe_at' = IF IsSwipe(result.gesture) THEN t ELSE swipe_at
            /\ gestures' = Collect(gestures, result)
            /\ delivered' = IF ShouldNotify(on_gesture, result)
                            THEN Append(delivered, result) ELSE delivered
            /\ evicted' = Len(history_time) + 1
                             - Len(Prune(AppendSample(h, hand.cx, hand.cy, t),
                                         t, cfg.time_window).t)
    /\ replay' = IF replay = <<>> THEN <<>> ELSE Tail(replay)
    /\ hands_left' = hands_left - 1
    /\ pc' = IF hands_left = 1 THEN "idle" ELSE "hands"
    /\ UNCHANGED <<last_frame_time, on_gesture>>
    /\ UNCHANGED <<action_vars, lifecycle_vars, log_vars>>

\* The loop iteration with no update_config running beside it: every read
\* of self.config returns the same object.
DetectGesturesOf(seen) ==
    /\ DetectStep(seen, config)
    /\ UNCHANGED <<config, standalone_vars>>

\* The loop iteration for any hand the tracker can report.
DetectGestures == DetectGesturesOf(Hands)

Next == SetCallback \/ UpdateConfig \/ BeginFrame \/ DetectGestures

Spec == Init /\ [][Next]_vars

\* ------------------------------------- update_config beside the hand loop

\* What the reads of one _detect_gestures call return when update_config
\* stores the new object between them: time_window (line 190) and cooldown
\* (line 199) are read from the old object, swipe_threshold (lines 211-227)
\* from the new one.
ReadAcross(old, new) == [old EXCEPT !.swipe_threshold = new.swipe_threshold]

\* The loop iteration on the processing thread while the settings endpoint,
\* on the server's thread, runs update_config: the assignment self.config =
\* config falls between the reads, no lock or snapshot prevents it.
DetectGesturesDuringUpdate ==
    /\ replay = <<>>
    /\ \E c \in Configs :
          /\ c # config
          /\ config' = c
          /\ DetectStep(Hands, ReadAcross(config, c))
    /\ UNCHANGED standalone_vars

NextRace == Next \/ DetectGesturesDuringUpdate

SpecRace == Init /\ [][NextRace]_vars

\* --------------------------------- the standalone loop beside the engine

\* SWIPE_THRESHOLD, TIME_WINDOW (0.3 s) and COOLDOWN (0.75 s) of
\* desktop_control.py, the times in ticks
SWIPE_THRESHOLD == 100
TIME_WINDOW == 6
COOLDOWN == 15

\* Palm positions of the frames fed to both programs: 150 px apart
\* horizontally and vertically, and one 75 px off both ways.
ComparePoints == {<<100, 100>>, <<250, 100>>, <<100, 250>>, <<175, 175>>}

\* The one hand the standalone loop tracks (max_num_hands=1).
CompareHands ==
    {[label |-> "Right", cx |-> p[1], cy |-> p[2], pinch |-> o] :
        p \in ComparePoints, o \in PinchOffsets}

\* The branches of desktop_control.py under the cooldown test: horizontal
\* when abs(dx) > abs(dy), right or left; else upward only.
StandaloneAction(dx, dy) ==
    IF Abs(dx) > Abs(dy)
    THEN IF dx > SWIPE_THRESHOLD THEN "Previous Desktop"
         ELSE IF dx < -SWIPE_THRESHOLD THEN "Next Desktop"
         ELSE "none"
    ELSE IF dy < -SWIPE_THRESHOLD THEN "New Desktop"
         ELSE "none"

\* The action desktop_control.py triggers for a hand at (cx, cy) at time t,
\* given its buffer h before the append.
StandaloneResult(h, last, cx, cy, t) ==
    LET tracked == Prune(AppendSample(h, cx, cy, t), t, TIME_WINDOW)
        n == Len(tracked.x)
    IN  IF n >= 2 /\ t - last > COOLDOWN
        THEN StandaloneAction(tracked.x[n] - tracked.x[1],
                              tracked.y[n] - tracked.y[1])
        ELSE "none"

\* One pass of the body of the standalone loop for a hand: append, prune,
\* test, and on a trigger the hotkey, the cooldown armed and the three
\* lists emptied.
StandaloneStep(cx, cy, t) ==
    LET h == History(dc_history_x, dc_history_y, dc_history_time)
        action == StandaloneResult(h, dc_last_trigger_time, cx, cy, t)
        after == IF action # "none" THEN EmptyHistory
                 ELSE Prune(AppendSample(h, cx, cy, t), t, TIME_WINDOW)
    IN  /\ dc_action' = action
        /\ dc_history_x' = after.x
        /\ dc_history_y' = after.y
        /\ dc_history_time' = after.t
        /\ dc_last_trigger_time' =
               IF action # "none" THEN t ELSE dc_last_trigger_time

\* A frame showing one hand reaches the engine; the standalone loop reads
\* the same frame and handles it in the step that follows.
CompareFrame == BeginFrame /\ hands_left' = 1

\* The hand of the frame handled by both: _detect_gestures of the engine
\* and the loop body of desktop_control.py, with the same palm position and
\* the same clock reading.
CompareHand ==
    /\ DetectStep(CompareHands, config)
    /\ LET palm == gestures'[Len(gestures')].landmarks.palm
       IN  StandaloneStep(palm[1], palm[2], last_frame_time)
    /\ UNCHANGED config

NextCompare == SetCallback \/ CompareFrame \/ CompareHand

\* Engine and standalone loop fed the same single-hand frames, the engine
\* under its default configuration, whose threshold, window and cooldown
\* are those of desktop_control.py.
SpecCompare == Init /\ [][NextCompare]_vars

\* ------------------------------------------------- an inverted pinch range

\* A configuration object that carries a pinch range with its ends swapped:
\* GestureConfig declares no pinch fields, the object has them as extra
\* attributes.
InvertedConfig ==
    [swipe_threshold |-> 100, time_window |-> 6, cooldown |-> 15,
     max_hands |-> 2, pinch_min_dist |-> max_dist, pinch_max_dist |-> min_dist]

\* update_config(InvertedConfig): the method inspects nothing before it
\* assigns self.config.
UpdateConfigInverted == UpdateConfigTo({InvertedConfig})

NextInverted == Next \/ UpdateConfigInverted

SpecInverted == Init /\ [][NextInverted]_vars

\* ------------------------------------------------------ a frame fed twice

\* The hand observation a result was derived from (label and landmarks are
\* copied into the GestureResult).
HandOf(result) ==
    [label |-> result.hand_label,
     cx |-> result.landmarks.palm[1], cy |-> result.landmarks.palm[2],
     pinch |-> result.landmarks.pinch]

\* process_frame called again on the observation of the frame that has just
\* returned, with the clock reading the same timestamp.
RepeatFrame ==
    /\ pc = "idle"
    /\ on_gesture # None
    /\ gestures # <<>>
    /\ Len(history_time) + Len(gestures) <= MaxHist
    /\ replay' = [i \in 1..Len(gestures) |-> HandOf(gestures[i])]
    /\ hands_left' = Len(gestures)
    /\ pc' = "hands"
    /\ gestures' = <<>>
    /\ delivered' = <<>>
    /\ UNCHANGED <<config, history_x, history_y, history_time,
                   last_trigger_time, last_frame_time, swipe_at, evicted,
                   on_gesture>>
    /\ UNCHANGED <<action_vars, lifecycle_vars, log_vars, standalone_vars>>

\* update_config between process_frame calls, none pending or just returned
\* with hands: the two calls of a repeated frame run under one configuration.
UpdateConfigQuiet == pc = "idle" /\ gestures = <<>> /\ UpdateConfig

NextRepeat ==
    SetCallback \/ UpdateConfigQuiet \/ BeginFrame \/ RepeatFrame \/ DetectGestures

SpecRepeat == Init /\ [][NextRepeat]_vars

\* ------------------------------------------------- incomplete landmarks

\* hand_landmarks.landmark[4], [8], [12], [9], in the order _detect_gestures
\* reads them
RequiredLandmarks == <<4, 8, 12, 9>>

\* Landmark counts for which one of the reads is out of range.
ShortCounts == 0..12

\* One of the four reads is out of range for a hand with count landmarks.
MissingLandmark(count) ==
    \E i \in 1..Len(RequiredLandmarks) : RequiredLandmarks[i] >= count

\* The palm tracked before the fingertips are read, whenever landmark 9
\* exists (mutation of HistoryOnRaise).
HistoryOnRaiseTracked(h, count, cx, cy, t, tw) ==
    IF count > 9 THEN Prune(AppendSample(h, cx, cy, t), t, tw) ELSE h

\* The buffer _detect_gestures leaves behind for a hand with count
\* landmarks: the four reads (lines 170-173) come before the appends (lines
\* 185-187), so a call that raises there has touched nothing.
HistoryOnRaise(h, count, cx, cy, t, tw) ==
    IF MissingLandmark(count) THEN h
    ELSE Prune(AppendSample(h, cx, cy, t), t, tw)

\* The loop iteration for a hand with too few landmarks: the first read of
\* a missing index raises IndexError before anything is appended; neither
\* _detect_gestures nor process_frame catches it, and process_loop calls
\* process_frame outside its try block, so the exception ends the loop's
\* thread.
DetectMalformed ==
    /\ pc = "hands"
    /\ hands_left > 0
    /\ replay = <<>>
    /\ \E count \in ShortCounts, palm \in PalmPoints :
          /\ MissingLandmark(count)
          /\ LET left == HistoryOnRaise(
                             History(history_x, history_y, history_time),
                             count, palm[1], palm[2], last_frame_time,
                             config.time_window)
             IN  /\ history_x' = left.x
                 /\ history_y' = left.y
                 /\ history_time' = left.t
    /\ pc' = "raised"
    /\ UNCHANGED <<config, last_trigger_time, last_frame_time, hands_left,
                   gestures, swipe_at, evicted, on_gesture, delivered, replay>>
    /\ UNCHANGED <<action_vars, lifecycle_vars, log_vars, standalone_vars>>

NextMalformed == Next \/ DetectMalformed

\* The engine fed by a tracker that may report hands with too few landmarks.
SpecMalformed == Init /\ [][NextMalformed]_vars

\* ----------------------------------------------------- action controller

\* Linear extrapolation without np.interp's clamping to the end values
\* (mutation of PinchLevel).
PinchLevelUnclamped(pinch_distance, lo, hi) ==
    ((pinch_distance - lo) * 100) \div (hi - lo)

\* int(np.interp(pinch_distance, [lo, hi], [0, 100])): the end value outside
\* [lo, hi], the value on the line in between, truncated by int().
PinchLevel(pinch_distance, lo, hi) ==
    IF pinch_distance <= lo THEN 0
    ELSE IF pinch_distance >= hi THEN 100
    ELSE ((pinch_distance - lo) * 100) \div (hi - lo)

\* level = max(0, min(100, level))
Clamp(level) == IF level < 0 THEN 0 ELSE IF level > 100 THEN 100 ELSE level

\* The call recorded as the latest of at most two.
Recorded(call) ==
    IF calls = <<>> THEN <<call>> ELSE <<calls[Len(calls)], call>>

\* The category test passed whatever the flag says (mutation of Permitted).
PermittedAlways(flag, available) == available

\* if not self.config.<category> [or not self._volume]: return False
Permitted(flag, available) == flag /\ available

\* What a desktop method does: the hotkey is sent and True returned, unless
\* the category is disabled or pyautogui raises (sent = FALSE).
DesktopCall(method, keys, sent) ==
    LET done == Permitted(action_config.desktop_control, TRUE) /\ sent
    IN  [method |-> method, level |-> 0, returned |-> done,
         issued |-> IF done THEN keys ELSE "none"]

\* What set_volume(level) does: with the category enabled and the audio
\* endpoint present the clamped level is sent and stored, unless an endpoint
\* call raises (ok = FALSE).
SetVolumeCall(level, endpoint, ok) ==
    LET done == Permitted(action_config.volume_control, endpoint) /\ ok
    IN  [method |-> "set_volume", level |-> level, returned |-> done,
         issued |-> IF done THEN "SetMasterVolumeLevel" ELSE "none"]

\* What set_brightness(level) does (ok = FALSE: sbc.set_brightness raises).
SetBrightnessCall(level, ok) ==
    LET done == Permitted(action_config.brightness_control, TRUE) /\ ok
    IN  [method |-> "set_brightness", level |-> level, returned |-> done,
         issued |-> IF done THEN "sbc.set_brightness" ELSE "none"]

\* self.current_volume / self.current_brightness after a set_* call
StoredLevel(call, current) ==
    IF call.returned THEN Clamp(call.level) ELSE current

\* ActionController.update_config, called by the settings endpoint
ActionUpdateConfig ==
    /\ \E c \in ActionConfigs : c # action_config /\ action_config' = c
    /\ UNCHANGED <<current_volume, current_brightness, calls, last_call>>
    /\ UNCHANGED <<engine_vars, lifecycle_vars, log_vars, standalone_vars>>

\* adjust_volume_by_pinch with set_volume: the level is computed and
\* returned whatever set_volume does; set_volume stores the clamped level
\* unless the category is disabled, the audio endpoint is missing or the
\* endpoint call raises.
AdjustVolumeWith(distances) ==
    /\ \E d \in distances, endpoint \in BOOLEAN, ok \in BOOLEAN :
        LET level == PinchLevel(d, min_dist, max_dist)
            call == SetVolumeCall(level, endpoint, ok)
        IN  /\ current_volume' = StoredLevel(call, current_volume)
            /\ last_call' = call
            /\ calls' = Recorded([control |-> "volume", pinch_distance |-> d,
                                  level |-> level])
    /\ UNCHANGED <<action_config, current_brightness>>

\* adjust_volume_by_pinch called with any distance
AdjustVolumeByPinch ==
    /\ AdjustVolumeWith(PinchDistances)
    /\ UNCHANGED <<engine_vars, lifecycle_vars, log_vars, standalone_vars>>

\* adjust_brightness_by_pinch with set_brightness
AdjustBrightnessWith(distances) ==
    /\ \E d \in distances, ok \in BOOLEAN :
        LET level == PinchLevel(d, min_dist, max_dist)
            call == SetBrightnessCall(level, ok)
        IN  /\ current_brightness' = StoredLevel(call, current_brightness)
            /\ last_call' = call
            /\ calls' = Recorded([control |-> "brightness",
                                  pinch_distance |-> d, level |-> level])
    /\ UNCHANGED <<action_config, current_volume>>

\* adjust_brightness_by_pinch called with any distance
AdjustBrightnessByPinch ==
    /\ AdjustBrightnessWith(PinchDistances)
    /\ UNCHANGED <<engine_vars, lifecycle_vars, log_vars, standalone_vars>>

NextActions ==
    ActionUpdateConfig \/ AdjustVolumeByPinch \/ AdjustBrightnessByPinch

\* The controller driven with any pinch distance, the engine left as
\* constructed.
SpecActions == Init /\ [][NextActions]_vars

\* -------------------------------------- the controller called directly

\* A desktop method called: next_desktop, prev_desktop or new_desktop with
\* the hotkey it sends.
DesktopMethod(method, keys) ==
    /\ \E sent \in BOOLEAN : last_call' = DesktopCall(method, keys, sent)
    /\ UNCHANGED <<action_config, current_volume, current_brightness, calls>>

\* ActionController.next_desktop
NextDesktop ==
    /\ DesktopMethod("next_desktop", "win+ctrl+right")
    /\ UNCHANGED <<engine_vars, lifecycle_vars, log_vars, standalone_vars>>

\* ActionController.prev_desktop
PrevDesktop ==
    /\ DesktopMethod("prev_desktop", "win+ctrl+left")
    /\ UNCHANGED <<engine_vars, lifecycle_vars, log_vars, standalone_vars>>

\* ActionController.new_desktop
NewDesktop ==
    /\ DesktopMethod("new_desktop", "win+ctrl+d")
    /\ UNCHANGED <<engine_vars, lifecycle_vars, log_vars, standalone_vars>>

\* ActionController.set_volume(level)
SetVolume ==
    /\ \E level \in Levels, endpoint \in BOOLEAN, ok \in BOOLEAN :
        LET call == SetVolumeCall(level, endpoint, ok)
        IN  /\ current_volume' = StoredLevel(call, current_volume)
            /\ last_call' = call
    /\ UNCHANGED <<action_config, current_brightness, calls>>
    /\ UNCHANGED <<engine_vars, lifecycle_vars, log_vars, standalone_vars>>

\* ActionController.set_brightness(level)
SetBrightness ==
    /\ \E level \in Levels, ok \in BOOLEAN :
        LET call == SetBrightnessCall(level, ok)
        IN  /\ current_brightness' = StoredLevel(call, current_brightness)
            /\ last_call' = call
    /\ UNCHANGED <<action_config, current_volume, calls>>
    /\ UNCHANGED <<engine_vars, lifecycle_vars, log_vars, standalone_vars>>

NextControls ==
    \/ ActionUpdateConfig
    \/ NextDesktop
    \/ PrevDesktop
    \/ NewDesktop
    \/ SetVolume
    \/ SetBrightness

\* The controller's methods called with any level under any configuration.
SpecControls == Init /\ [][NextControls]_vars

\* ------------------------------------------------- the gesture callback

\* insert(0, entry) without the pop() that keeps the log at max_log_size
\* (mutation of LogInsert).
LogInsertUntrimmed(log, entry) == <<entry>> \o log

\* state.gesture_log.insert(0, log_entry); if len(state.gesture_log) >
\* state.max_log_size: state.gesture_log.pop()
LogInsert(log, entry) ==
    LET grown == <<entry>> \o log
    IN  IF Len(grown) > max_log_size
        THEN SubSeq(grown, 1, Len(grown) - 1)
        ELSE grown

\* gesture_callback(result): nothing for a result of kind NONE; else the
\* entry is put in front of the log, the log cut to max_log_size, and the
\* controller method of the gesture called (none for SWIPE_DOWN).  The two
\* threads that send the entry to the cloud change nothing here.
GestureCallback ==
    /\ logged < MaxEvents
    /\ \E kind \in {NONE, KindOf(logged + 1)}, hand \in Labels :
        /\ last_event' = [gesture |-> kind, hand_label |-> hand]
        /\ IF kind = NONE
           THEN UNCHANGED <<gesture_log, logged, action_vars>>
           ELSE /\ gesture_log' = LogInsert(gesture_log,
                                  [gesture |-> kind, serial |-> logged + 1])
                /\ logged' = logged + 1
                /\ CASE kind = SWIPE_LEFT ->
                            DesktopMethod("next_desktop", "win+ctrl+right")
                     [] kind = SWIPE_RIGHT ->
                            DesktopMethod("prev_desktop", "win+ctrl+left")
                     [] kind = SWIPE_UP ->
                            DesktopMethod("new_desktop", "win+ctrl+d")
                     [] kind = PINCH /\ hand = "Left" ->
                            AdjustVolumeWith(CallbackDistances)
                     [] kind = PINCH /\ hand # "Left" ->
                            AdjustBrightnessWith(CallbackDistances)
                     [] OTHER -> UNCHANGED action_vars
    /\ UNCHANGED <<engine_vars, lifecycle_vars, standalone_vars>>

NextLog == GestureCallback

\* The callback called with a run of events, the controller configured as
\* constructed.
SpecLog == Init /\ [][NextLog]_vars

\* ------------------------------------------ starting and stopping the loop

\* start_gesture_detection, called by POST /start, by a websocket "start"
\* message or as the last step of a restart: nothing when already running;
\* an exception when the camera does not connect (connect released the old
\* capture first); else callback and configurations from the settings,
\* is_running set and a new process_loop thread started.
StartDetection ==
    /\ handler \in {"none", "restart"}
    /\ ~is_running
    /\ Len(loops) < MaxLoops
    /\ handler' = "none"
    /\ \E connected \in BOOLEAN :
        IF connected
        THEN /\ camera' = TRUE
             /\ on_gesture' = "gesture_callback"
             /\ \E c \in Configs : config' = c
             /\ \E a \in ActionConfigs : action_config' = a
             /\ is_running' = TRUE
             /\ loops' = Append(loops, "test")
             /\ process_thread' = Len(loops) + 1
        ELSE /\ camera' = FALSE
             /\ UNCHANGED <<on_gesture, config, action_config, is_running,
                            loops, process_thread>>
    /\ UNCHANGED <<history_x, history_y, history_time, last_trigger_time,
                   last_frame_time, pc, hands_left, gestures, swipe_at,
                   evicted, delivered, replay>>
    /\ UNCHANGED <<current_volume, current_brightness, calls, last_call,
                   retired>>
    /\ UNCHANGED <<log_vars, standalone_vars>>

\* stop_gesture_detection up to the join: is_running cleared; with no
\* thread recorded the camera is released at once and the call returns.
StopUpTo(waiting, returned) ==
    /\ is_running' = FALSE
    /\ IF process_thread # 0
       THEN /\ handler' = waiting
            /\ UNCHANGED <<camera, retired>>
       ELSE /\ handler' = returned
            /\ camera' = FALSE
            /\ retired' = retired \cup (1..Len(loops))
    /\ UNCHANGED <<process_thread, loops>>
    /\ UNCHANGED <<engine_vars, action_vars, log_vars, standalone_vars>>

\* stop_gesture_detection called by POST /stop or a websocket "stop" message
StopDetection ==
    /\ handler = "none"
    /\ StopUpTo("join", "none")

\* update_settings with a changed camera while running: stop, sleep, start
RestartDetection ==
    /\ handler = "none"
    /\ is_running
    /\ StopUpTo("rejoin", "restart")

\* The positions a loop thread can stay in longer than the join waits: the
\* capture's read, and process_frame with its callbacks and the broadcast.
Blocking == {"read", "frame"}

\* join(timeout=2.0) returns, the thread finished or not: the reference is
\* dropped, the camera released and stop_gesture_detection returns.
JoinReturns ==
    /\ handler \in {"join", "rejoin"}
    /\ loops[process_thread] \in {"done"} \cup Blocking
    /\ process_thread' = 0
    /\ camera' = FALSE
    /\ retired' = retired \cup (1..Len(loops))
    /\ handler' = IF handler = "join" THEN "none" ELSE "restart"
    /\ UNCHANGED <<is_running, loops>>
    /\ UNCHANGED <<engine_vars, action_vars, log_vars, standalone_vars>>

\* while state.is_running: of thread i
LoopTest(i) ==
    /\ i \in 1..Len(loops)
    /\ loops[i] = "test"
    /\ loops' = [loops EXCEPT ![i] = IF is_running THEN "read" ELSE "done"]
    /\ UNCHANGED <<is_running, process_thread, camera, handler, retired>>
    /\ UNCHANGED <<engine_vars, action_vars, log_vars, standalone_vars>>

\* read_frame of thread i returns: None without an open capture or when the
\* read fails, followed by the sleep; else a frame, and process_frame is
\* called with it (a frame showing no hand).
LoopRead(i) ==
    /\ i \in 1..Len(loops)
    /\ loops[i] = "read"
    /\ \E frame \in (IF camera THEN BOOLEAN ELSE {FALSE}) :
        IF frame
        THEN /\ ProcessFrameWith({0})
             /\ loops' = [loops EXCEPT ![i] = "frame"]
        ELSE /\ loops' = [loops EXCEPT ![i] = "test"]
             /\ UNCHANGED engine_vars
    /\ UNCHANGED <<is_running, process_thread, camera, handler, retired>>
    /\ UNCHANGED <<action_vars, log_vars, standalone_vars>>

\* process_frame of thread i returned, the broadcast and the sleep are done
LoopFrameDone(i) ==
    /\ i \in 1..Len(loops)
    /\ loops[i] = "frame"
    /\ loops' = [loops EXCEPT ![i] = "test"]
    /\ UNCHANGED <<is_running, process_thread, camera, handler, retired>>
    /\ UNCHANGED <<engine_vars, action_vars, log_vars, standalone_vars>>

NextLifecycle ==
    \/ StartDetection
    \/ StopDetection
    \/ RestartDetection
    \/ JoinReturns
    \/ \E i \in 1..MaxLoops : LoopTest(i)
    \/ \E i \in 1..MaxLoops : LoopRead(i)
    \/ \E i \in 1..MaxLoops : LoopFrameDone(i)

SpecLifecycle == Init /\ [][NextLifecycle]_vars

\* ------------------------------------------- the running loop, with fairness

\* Hands of the liveness runs: one label, one pinch pose, palm at the two
\* ends of a 150 px horizontal stroke.
LiveHands ==
    {h \in Hands : h.label = "Right" /\ h.pinch = <<120, 160>>
                    /\ h.cy = 100 /\ h.cx \in {100, 250}}

\* update_config(GestureConfig(settings...)) of start_gesture_detection,
\* before the loop processes its first hand; the settings are then left alone.
ConfigureAtStart ==
    /\ on_gesture # None
    /\ pc = "idle"
    /\ history_time = <<>>
    /\ swipe_at = NoTime
    /\ UpdateConfig

\* A frame of the loop in which the tracker finds at most one hand.
LiveFrame == BeginFrame /\ hands_left' <= 1

\* A frame whose clock reading is later than the previous frame's.
AdvanceFrame == LiveFrame /\ last_frame_time' > last_frame_time

\* The hand of a LiveFrame processed.
LiveDetect == DetectGesturesOf(LiveHands)

LiveNext == SetCallback \/ ConfigureAtStart \/ LiveFrame \/ LiveDetect

\* process_frame runs to completion once called (weak fairness of the hand
\* step); frames with increasing timestamps keep arriving while the clock
\* is within the bound (strong fairness: a frame can start only between
\* frames).
LiveSpec ==
    /\ Init
    /\ [][LiveNext]_vars
    /\ WF_vars(LiveDetect)
    /\ SF_vars(AdvanceFrame)

\* ------------------------------------------------------------ observations
\* The step is one call of _detect_gestures (one hand of the current frame).
HandProcessed == pc = "hands" /\ hands_left' = hands_left - 1

\* The result of the hand processed last.
LastResult(gs) == gs[Len(gs)]

\* C1: after every trajectory update (append and prune of a processed hand)
\* every sample still buffered is at most time_window old:
\* now - sample.timestamp <= time_window, the oldest included.
C1_WithinWindow ==
    [][HandProcessed =>
         \A i \in 1..Len(history_time') :
             last_frame_time' - history_time'[i] <= config'.time_window]_vars

\* C1 witness: an update evicted two expired samples and kept the new one.
C1_Witness ==
    /\ pc = "idle"
    /\ evicted >= 2
    /\ history_time = <<last_frame_time>>

\* C2: a hand processed less than cooldown after the latest emitted swipe
\* (an earlier frame's, or an earlier hand's of the same frame) emits no swipe.
C2_NoSwipeInCooldown ==
    [][(/\ HandProcessed
        /\ swipe_at # NoTime
        /\ last_frame_time - swipe_at < config.cooldown)
       => ~IsSwipe(LastResult(gestures').gesture)]_vars

\* C2 witness: within cooldown of a swipe the buffer holds a displacement
\* beyond the threshold and the hand just processed emitted no swipe.
C2_Witness ==
    /\ pc = "idle"
    /\ swipe_at # NoTime
    /\ last_frame_time - swipe_at < config.cooldown
    /\ Len(gestures) >= 1
    /\ ~IsSwipe(LastResult(gestures).gesture)
    /\ Len(history_x) >= 2
    /\ Abs(history_x[Len(history_x)] - history_x[1]) > config.swipe_threshold

\* The buffer a hand's displacement is taken over: the buffer before the
\* call with the hand's palm sample appended, pruned to the window.
TrackedFor(r) ==
    Prune(AppendSample(History(history_x, history_y, history_time),
                       r.landmarks.palm[1], r.landmarks.palm[2], r.timestamp),
          r.timestamp, config.time_window)

\* The swipe the decision table of the specification gives for (dx, dy).
TableSwipe(dx, dy, threshold) ==
    CASE Abs(dx) > Abs(dy) /\ dx > threshold -> SWIPE_RIGHT
      [] Abs(dx) > Abs(dy) /\ dx < -threshold -> SWIPE_LEFT
      [] Abs(dx) <= Abs(dy) /\ dy < -threshold -> SWIPE_UP
      [] Abs(dx) <= Abs(dy) /\ dy > threshold -> SWIPE_DOWN
      [] OTHER -> NONE

\* The swipe the table gives for the hand of result r, NONE with fewer than
\* two samples.
ExpectedSwipe(r) ==
    LET b == TrackedFor(r)
        n == Len(b.x)
    IN  IF n >= 2
        THEN TableSwipe(b.x[n] - b.x[1], b.y[n] - b.y[1], config.swipe_threshold)
        ELSE NONE

\* The swipe part of an emitted gesture.
SwipePart(g) == IF IsSwipe(g) THEN g ELSE NONE

\* C3: pinch is not subject to cooldown: a hand processed within cooldown of
\* the latest swipe whose pinch_distance is in range still yields Pinch.
C3_PinchDuringCooldown ==
    [][(/\ HandProcessed
        /\ swipe_at # NoTime
        /\ last_frame_time - swipe_at < config.cooldown
        /\ LastResult(gestures').pinch_distance < PinchLimit)
       => LastResult(gestures').gesture = PINCH]_vars

\* C4: when the cooldown gate is open the swipe emitted for a hand is exactly
\* the table over (dx, dy) = newest - oldest: horizontal if abs(dx) > abs(dy),
\* vertical otherwise (ties included), thresholds strict, and no swipe with
\* fewer than two samples.
C4_SwipeTable ==
    [][(/\ HandProcessed
        /\ last_frame_time - last_trigger_time > config.cooldown)
       => SwipePart(LastResult(gestures').gesture)
              = ExpectedSwipe(LastResult(gestures'))]_vars

\* C4 witness: a hand that moved down to (175, 175) by 75 px (from (100, 100)
\* or (250, 100) a tie abs(dx) = abs(dy)) emitted SwipeDown.
C4_Witness ==
    /\ Len(gestures) >= 1
    /\ LastResult(gestures).gesture = SWIPE_DOWN
    /\ LastResult(gestures).landmarks.palm = <<175, 175>>
    /\ LastResult(gestures).confidence = 75
    /\ history_x = <<>>

\* C5 as stated: once a frame that emitted a swipe has returned, the buffer
\* is empty and last_trigger_time is that frame's timestamp.
C5_EmptyAfterFrame ==
    (/\ pc = "idle"
     /\ \E i \in 1..Len(gestures) : IsSwipe(gestures[i].gesture))
    => /\ history_x = <<>>
       /\ history_y = <<>>
       /\ history_time = <<>>
       /\ last_trigger_time = last_frame_time

\* C5 amended: right after the hand that emits a swipe is processed the
\* buffer is empty and last_trigger_time is the frame's timestamp; the
\* buffer then holds only samples of hands processed after it in the frame.
C5_EmptyAfterSwipe ==
    \A i \in 1..Len(gestures) :
        IsSwipe(gestures[i].gesture)
        => /\ Len(history_x) <= Len(gestures) - i
           /\ Len(history_y) <= Len(gestures) - i
           /\ Len(history_time) <= Len(gestures) - i
           /\ last_trigger_time = gestures[i].timestamp

\* C5 witness: the hand just processed emitted a swipe and the buffer is
\* empty, cooldown armed at the frame's timestamp.
C5_Witness ==
    /\ Len(gestures) >= 1
    /\ IsSwipe(LastResult(gestures).gesture)
    /\ history_time = <<>>
    /\ last_trigger_time = last_frame_time

\* The hand of result r completes a rightward motion of 150 px at constant
\* height: the buffer it is judged on runs from x = 100 to x = 250.
RightMotion(r) ==
    LET b == TrackedFor(r)
        n == Len(b.x)
    IN  /\ n >= 2
        /\ b.x[1] = 100
        /\ b.x[n] = 250
        /\ \A i \in 1..n : b.y[i] = b.y[1]

\* C6: on a fresh engine with the default configuration, frames at t = 0.00
\* (x = 100), 0.10 (x = 100) and 0.20 (x = 250) at constant y make the frame
\* at 0.20 emit SwipeRight with confidence 1.0 and clear the history; after
\* that swipe no frame before t = 0.95 emits a swipe, and the same motion is
\* no longer suppressed from t = 0.95 on.
C6_EndToEnd ==
    [][(HandProcessed /\ config = GestureConfig) =>
        LET r == LastResult(gestures')
        IN  /\ (/\ swipe_at = NoTime
                /\ history_x = <<100, 100>>
                /\ history_y = <<r.landmarks.palm[2], r.landmarks.palm[2]>>
                /\ history_time = <<0, 2>>
                /\ r.timestamp = 4
                /\ r.landmarks.palm[1] = 250)
               => /\ r.gesture = SWIPE_RIGHT
                  /\ r.confidence = 100
                  /\ history_time' = <<>>
            /\ (swipe_at = 4 /\ r.timestamp < 19) => ~IsSwipe(r.gesture)
            /\ (swipe_at = 4 /\ r.timestamp >= 19 /\ RightMotion(r))
               => r.gesture = SWIPE_RIGHT]_vars

\* C7: discrete detection is blocked exactly when now - last_trigger_time is
\* less than cooldown: a hand whose displacement qualifies by the table
\* emits that swipe if and only if now - last_trigger_time >= cooldown, so
\* also when the difference equals cooldown.
C7_BlockedIffLess ==
    [][HandProcessed =>
        LET r == LastResult(gestures')
        IN  ExpectedSwipe(r) # NONE
            => (r.gesture = ExpectedSwipe(r)
                <=> ~(last_frame_time - last_trigger_time < config.cooldown))]_vars

\* C8: until the first swipe is emitted cooldown blocks nothing: a hand whose
\* displacement qualifies by the table emits that swipe at any timestamp.
C8_ReadyUntilFirstSwipe ==
    [][(HandProcessed /\ swipe_at = NoTime) =>
        LET r == LastResult(gestures')
        IN  ExpectedSwipe(r) # NONE => r.gesture = ExpectedSwipe(r)]_vars

\* C9: every processed hand yields exactly one event, a swipe if one fired,
\* otherwise Pinch if pinch_distance is in range, otherwise None with
\* confidence 0.
C9_OneEventByPriority ==
    [][HandProcessed =>
        LET r == LastResult(gestures')
        IN  /\ r.gesture \in GestureType
            /\ ~IsSwipe(r.gesture)
               => /\ (r.pinch_distance < PinchLimit => r.gesture = PINCH)
                  /\ (~(r.pinch_distance < PinchLimit)
                      => r.gesture = NONE /\ r.confidence = 0)]_vars

\* C10: when no swipe fired for a hand, a Pinch with confidence 1.0 is
\* emitted if and only if pinch_distance is below the upper pinch distance.
C10_PinchIffInRange ==
    [][HandProcessed =>
        LET r == LastResult(gestures')
        IN  ~IsSwipe(r.gesture)
            => ((r.gesture = PINCH /\ r.confidence = 100)
                <=> r.pinch_distance < PinchLimit)]_vars

\* The elements of a result list whose kind is not None, in order.
RECURSIVE NonNone(_)
NonNone(gs) ==
    IF gs = <<>> THEN <<>>
    ELSE IF Head(gs).gesture # NONE THEN <<Head(gs)>> \o NonNone(Tail(gs))
    ELSE NonNone(Tail(gs))

\* C11: within process_frame the registered callback is invoked exactly once
\* for every event whose kind is not None, in the order the hands are
\* processed, and never for kind None: at every point of the frame, and when
\* it returns, the calls made are the non-None results collected so far.
C11_CallbackPerEvent ==
    on_gesture # None => delivered = NonNone(gestures)

\* C11 witness: a returned frame with a None event followed by a delivered
\* one.
C11_Witness ==
    /\ pc = "idle"
    /\ Len(gestures) = 2
    /\ gestures[1].gesture = NONE
    /\ gestures[2].gesture # NONE
    /\ delivered = <<gestures[2]>>

\* C12 as stated: the list returned by process_frame holds no event of kind
\* None.
C12_OnlyNonNone ==
    \A i \in 1..Len(gestures) : gestures[i].gesture # NONE

\* C12 amended: every processed hand contributes exactly one element to the
\* returned list, its own result, whatever its kind (None included).
C12_OneResultPerHand ==
    [][HandProcessed =>
          /\ Len(gestures') = Len(gestures) + 1
          /\ SubSeq(gestures', 1, Len(gestures)) = gestures
          /\ LastResult(gestures').timestamp = last_frame_time]_vars

\* C12 witness: a frame has returned a list whose only element has kind None.
C12_Witness ==
    /\ pc = "idle"
    /\ Len(gestures) = 1
    /\ gestures[1].gesture = NONE
    /\ delivered = <<>>

\* C13: a frame processed twice in immediate succession (same observation,
\* same timestamp): no hand of the second call emits a swipe, changes
\* last_trigger_time or leaves the buffer cleared, and no single call emits
\* more than one swipe, so the two calls together emit at most one swipe,
\* clear history at most once and set last_trigger_time at most once.
C13_RepeatIdempotent ==
    [][/\ Cardinality({i \in 1..Len(gestures') :
                          IsSwipe(gestures'[i].gesture)}) <= 1
       /\ (HandProcessed /\ replay # <<>>) =>
              /\ ~IsSwipe(LastResult(gestures').gesture)
              /\ last_trigger_time' = last_trigger_time
              /\ swipe_at' = swipe_at
              /\ history_time' # <<>>]_vars

\* C13 witness: the second call of a two-hand frame whose first call emitted
\* a swipe has processed its first hand again.
C13_Witness ==
    /\ replay # <<>>
    /\ Len(gestures) = 1
    /\ swipe_at = last_frame_time
    /\ last_trigger_time = last_frame_time

\* C14: last_trigger_time changes in a step if and only if the step processes
\* a hand and emits a swipe; hands that emit Pinch or None, and every other
\* operation, leave it unchanged.
C14_TriggerOnlyBySwipe ==
    [][(last_trigger_time' # last_trigger_time) <=>
          (HandProcessed /\ IsSwipe(LastResult(gestures').gesture))]_vars

\* C14 witness: a pinch emitted after an earlier swipe's cooldown has passed;
\* last_trigger_time is still the time of that swipe.
C14_Witness ==
    /\ Len(gestures) >= 1
    /\ LastResult(gestures).gesture = PINCH
    /\ swipe_at # NoTime
    /\ last_trigger_time = swipe_at
    /\ last_trigger_time < last_frame_time

\* C15: a hand whose event is Pinch or None leaves the trajectory buffer
\* non-empty, its newest sample being the one appended for that hand.
C15_PinchKeepsHistory ==
    [][(HandProcessed /\ ~IsSwipe(LastResult(gestures').gesture)) =>
          LET r == LastResult(gestures')
              n == Len(history_time')
          IN  /\ n >= 1
              /\ Len(history_x') = n
              /\ Len(history_y') = n
              /\ <<history_x'[n], history_y'[n]>> = r.landmarks.palm
              /\ history_time'[n] = r.timestamp]_vars

\* C15 witness: a pinch was emitted and the buffer holds the sample of that
\* hand on top of an older one.
C15_Witness ==
    /\ Len(gestures) >= 1
    /\ LastResult(gestures).gesture = PINCH
    /\ Len(history_x) >= 2
    /\ history_x[Len(history_x)] = LastResult(gestures).landmarks.palm[1]
    /\ history_time[1] < last_frame_time

\* The last clock reading the time bound allows on the current time line.
Horizon == MaxTime + (IF last_frame_time >= Epoch THEN Epoch ELSE 0)

\* C16: after a swipe at time T, with frames of increasing timestamps
\* arriving, a frame whose clock reading is more than cooldown after T
\* eventually occurs, that is, the cooldown gate is open again without any
\* call other than frames; stated for the swipes whose cooldown ends within
\* the time bound.
C16_CooldownExpires ==
    (swipe_at # NoTime /\ swipe_at + config.cooldown + FramePeriod <= Horizon)
        ~> CooldownPassed(last_frame_time, last_trigger_time, config.cooldown)

\* C16 witness: a swipe was emitted, later frames were processed and the
\* latest one finds the gate open again.
C16_Witness ==
    /\ swipe_at # NoTime
    /\ last_trigger_time = swipe_at
    /\ last_frame_time > swipe_at + config.cooldown
    /\ Len(gestures) = 1
    /\ gestures[1].gesture = PINCH

\* The displacement, along the axis of swipe g, of the hand of result r.
AxisDisplacement(r, g) ==
    LET b == TrackedFor(r)
        n == Len(b.x)
    IN  IF g \in {SWIPE_LEFT, SWIPE_RIGHT} THEN Abs(b.x[n] - b.x[1])
        ELSE Abs(b.y[n] - b.y[1])

\* C18: every event has a confidence between 0 and 1 (0..100 percent): a
\* swipe min(|d|/100, 1.0) with d the displacement along its axis, a Pinch
\* 1.0 and a None event 0; this includes hands with zero displacement and
\* frames with the timestamp of the previous one.
C18_ConfidenceRange ==
    [][HandProcessed =>
          LET r == LastResult(gestures')
          IN  /\ r.confidence \in 0..100
              /\ IsSwipe(r.gesture) =>
                     r.confidence = Min(AxisDisplacement(r, r.gesture), 100)
              /\ r.gesture = PINCH => r.confidence = 100
              /\ r.gesture = NONE => r.confidence = 0]_vars

\* C18 witness: one frame with a hand that has not moved (a Pinch of
\* confidence 1.0) and, at the same timestamp, a hand 75 px up and left of
\* the oldest sample (a swipe of confidence 0.75).
C18_Witness ==
    /\ Len(gestures) = 2
    /\ gestures[1].gesture = PINCH
    /\ gestures[1].confidence = 100
    /\ gestures[1].landmarks.palm = <<175, 175>>
    /\ gestures[2].gesture = SWIPE_UP
    /\ gestures[2].confidence = 75

\* C19: the level returned for a pinch distance is 0 up to distance 30, 100
\* from distance 200 on and, in between, the point of the line from (30, 0)
\* to (200, 100) truncated to an integer; it is always within 0..100, and of
\* two calls the one with the larger distance never returns the smaller
\* level.
C19_PinchLevelMapping ==
    /\ \A i \in 1..Len(calls) :
          LET d == calls[i].pinch_distance
              level == calls[i].level
          IN  /\ level \in 0..100
              /\ d <= 30 => level = 0
              /\ d >= 200 => level = 100
              /\ (d > 30 /\ d < 200) =>
                     /\ 170 * level <= 100 * (d - 30)
                     /\ 100 * (d - 30) < 170 * (level + 1)
    /\ (Len(calls) = 2 /\ calls[1].pinch_distance <= calls[2].pinch_distance)
          => calls[1].level <= calls[2].level
    /\ current_volume \in 0..100
    /\ current_brightness \in 0..100

\* C19 witness: a volume call with distance 10 returned 0 and the next call,
\* brightness with distance 300, returned 100 and set the brightness.
C19_Witness ==
    /\ Len(calls) = 2
    /\ calls[1] = [control |-> "volume", pinch_distance |-> 10, level |-> 0]
    /\ calls[2] = [control |-> "brightness", pinch_distance |-> 300,
                   level |-> 100]
    /\ current_volume = 0
    /\ current_brightness = 100

\* C20: a hand with incomplete landmarks is skipped without an error leaving
\* process_frame: the frame goes on to its remaining hands and the loop
\* keeps running, so process_frame is never left by an exception.
C20_MalformedSkipped ==
    [][(pc = "hands" /\ pc' # pc) =>
          (pc' = "idle" /\ hands_left' = 0)]_vars

C22_AppliedByNextCall ==
    [][(config' # config) =>
          /\ history_x' = history_x
          /\ history_y' = history_y
          /\ history_time' = history_time
          /\ pc = "idle"]_vars

\* C23 as stated: after update_config the buffer is empty and the cooldown
\* state is back to its initial value.
C23_ResetOnReconfigure ==
    [][(config' # config) =>
          /\ history_x' = <<>>
          /\ history_y' = <<>>
          /\ history_time' = <<>>
          /\ last_trigger_time' = 0]_vars

\* C23 amended: update_config resets nothing; the buffer, last_trigger_time
\* and the record of the latest swipe are the same after it as before.
C23_StateSurvivesReconfigure ==
    [][(config' # config) =>
          /\ <<history_x', history_y', history_time'>>
                 = <<history_x, history_y, history_time>>
          /\ last_trigger_time' = last_trigger_time
          /\ swipe_at' = swipe_at]_vars

\* C23 witness: the sensitive configuration is in force over a buffer whose
\* 150 px stroke ended at t = 4 with the gate of that configuration open; it
\* would have been consumed as a swipe had it been buffered under this
\* configuration, so it was buffered under the previous one.
C23_Witness ==
    /\ config = SettingsConfig(50, 2)
    /\ pc = "idle"
    /\ history_x = <<100, 250>>
    /\ history_time[2] = 4
    /\ last_frame_time = 4
    /\ last_trigger_time = 0

\* C24: all reads of the configuration made while one hand is classified
\* come from one configuration value: the result of every processed hand is
\* the result under a single configuration, the one before or the one after
\* a concurrent update_config.
C24_OneConfigPerPass ==
    [][HandProcessed =>
          LET r == LastResult(gestures')
          IN  \E c \in {config, config'} :
                  r = DetectResult(HandOf(r),
                                   History(history_x, history_y, history_time),
                                   last_trigger_time, c, last_frame_time)]_vars

\* C25: a configuration whose pinch range is inverted is rejected and never
\* in force: no hand is classified while the engine's configuration has
\* pinch_min_dist > pinch_max_dist.
C25_InvertedRejected ==
    [][HandProcessed =>
          ~ (/\ "pinch_min_dist" \in DOMAIN config
             /\ config.pinch_min_dist > config.pinch_max_dist)]_vars

\* The number of swipe results in the list of a frame.
SwipeCount(gs) == Cardinality({i \in 1..Len(gs) : IsSwipe(gs[i].gesture)})

\* C26: the cooldown is shared by the hands: whichever hand is processed
\* while a swipe was emitted at most cooldown ago (by any hand, in an
\* earlier frame or earlier in the same frame) emits no swipe, and the
\* results of one frame hold at most one swipe.
C26_SharedCooldown ==
    [][HandProcessed =>
          /\ (swipe_at # NoTime /\ last_frame_time - swipe_at <= config.cooldown)
                => ~IsSwipe(LastResult(gestures').gesture)
          /\ SwipeCount(gestures) >= 1 => ~IsSwipe(LastResult(gestures').gesture)
          /\ SwipeCount(gestures') <= 1]_vars

\* C26 witness: in one frame the left hand swiped and the right hand,
\* processed after it at the same time, emitted no swipe.
C26_Witness ==
    /\ pc = "idle"
    /\ Len(gestures) = 2
    /\ IsSwipe(gestures[1].gesture)
    /\ gestures[1].hand_label = "Left"
    /\ gestures[2].hand_label = "Right"
    /\ ~IsSwipe(gestures[2].gesture)
    /\ swipe_at = last_frame_time

\* The index of the oldest buffered sample at most tw old at time t.
OldestFresh(ht, t, tw) ==
    CHOOSE i \in 1..Len(ht) :
        /\ t - ht[i] <= tw
        /\ \A j \in 1..(i - 1) : t - ht[j] > tw

\* C27: the buffer is shared by the hands: when a hand is processed after
\* another hand of the same frame that emitted no swipe, the newest buffered
\* sample is that other hand's palm, and with the gate open the swipe
\* emitted is the table over this hand's palm minus the oldest sample still
\* in the window, whichever hand contributed it.
C27_SharedBuffer ==
    [][(/\ HandProcessed
        /\ gestures # <<>>
        /\ ~IsSwipe(LastResult(gestures).gesture)
        /\ last_frame_time - last_trigger_time > config.cooldown)
       => LET prev == LastResult(gestures)
              r == LastResult(gestures')
              n == Len(history_time)
          IN  /\ n >= 1
              /\ <<history_x[n], history_y[n]>> = prev.landmarks.palm
              /\ history_time[n] = r.timestamp
              /\ LET o == OldestFresh(history_time, r.timestamp,
                                      config.time_window)
                 IN  SwipePart(r.gesture)
                        = TableSwipe(r.landmarks.palm[1] - history_x[o],
                                     r.landmarks.palm[2] - history_y[o],
                                     config.swipe_threshold)]_vars

\* C27 witness: a frame with the left hand at (100, 100) and the right hand
\* at (250, 100): the right hand's result is SwipeRight, over the distance
\* between the two hands.
C27_Witness ==
    /\ pc = "idle"
    /\ Len(gestures) = 2
    /\ gestures[1].hand_label = "Left"
    /\ gestures[1].landmarks.palm = <<100, 100>>
    /\ ~IsSwipe(gestures[1].gesture)
    /\ gestures[2].hand_label = "Right"
    /\ gestures[2].landmarks.palm = <<250, 100>>
    /\ gestures[2].gesture = SWIPE_RIGHT
    /\ gestures[2].timestamp = gestures[1].timestamp
    /\ evicted = 0

\* The elements of xs whose time in ts is at most tw before t, in the order
\* of xs.
FreshOf(xs, ts, t, tw) ==
    LET F[i \in 0..Len(ts)] ==
            IF i = 0 THEN <<>>
            ELSE IF t - ts[i] <= tw THEN Append(F[i - 1], xs[i])
            ELSE F[i - 1]
    IN  F[Len(ts)]

\* C28: eviction is by age only: a hand processed at time now that emits no
\* swipe leaves in the buffer exactly the samples it held before plus the
\* new one that satisfy now - t <= time_window, in arrival order and
\* whatever their number, the new sample last.
C28_EvictionByAge ==
    [][(HandProcessed /\ ~IsSwipe(LastResult(gestures').gesture))
       => LET r == LastResult(gestures')
              now == r.timestamp
              xs == Append(history_x, r.landmarks.palm[1])
              ys == Append(history_y, r.landmarks.palm[2])
              ts == Append(history_time, now)
              tw == config.time_window
          IN  /\ history_x' = FreshOf(xs, ts, now, tw)
              /\ history_y' = FreshOf(ys, ts, now, tw)
              /\ history_time' = FreshOf(ts, ts, now, tw)
              /\ history_time' # <<>>
              /\ history_time'[Len(history_time')] = now
              /\ history_x'[Len(history_x')] = r.landmarks.palm[1]
              /\ history_y'[Len(history_y')] = r.landmarks.palm[2]]_vars

\* C28 witness: three samples are buffered after a hand that emitted no
\* swipe, the oldest exactly time_window old.
C28_Witness ==
    /\ pc = "idle"
    /\ gestures # <<>>
    /\ ~IsSwipe(LastResult(gestures).gesture)
    /\ Len(history_time) = 3
    /\ history_time[3] = last_frame_time
    /\ last_frame_time - history_time[1] = config.time_window

\* C30: the three history lists have the same length in every reachable
\* state and, frame timestamps never decreasing, history_time is
\* non-decreasing from index 1 (oldest) to the newest.
C30_AlignedOrdered ==
    /\ Len(history_x) = Len(history_time)
    /\ Len(history_y) = Len(history_time)
    /\ \A i \in 1..(Len(history_time) - 1) :
          history_time[i] <= history_time[i + 1]

\* C30 witness: three samples of three different frames are buffered.
C30_Witness ==
    /\ Len(history_x) = 3
    /\ history_time[1] < history_time[2]
    /\ history_time[2] < history_time[3]

\* The loop threads that are inside process_frame.
InFrame(ls) == {i \in 1..Len(ls) : ls[i] = "frame"}

\* C29: a single producer: at most one loop thread is calling process_frame
\* at any time, and a loop started before a stop_gesture_detection that has
\* returned does not enter process_frame again.
C29_SingleProducer ==
    [][/\ Cardinality(InFrame(loops')) <= 1
       /\ \A i \in retired : i \in InFrame(loops') => i \in InFrame(loops)]_vars

\* The ActionConfig flag that governs a method of the controller.
FlagOf(method, cfg) ==
    CASE method = "set_volume" -> cfg.volume_control
      [] method = "set_brightness" -> cfg.brightness_control
      [] OTHER -> cfg.desktop_control

\* C33: a call of next_desktop, prev_desktop, new_desktop, set_volume or
\* set_brightness whose category flag is False returns False, makes no
\* operating-system call and leaves current_volume and current_brightness
\* as they were; after any call the stored levels are within 0..100.
C33_DisabledDoesNothing ==
    [][(last_call' # last_call) =>
          /\ ~FlagOf(last_call'.method, action_config) =>
                /\ last_call'.returned = FALSE
                /\ last_call'.issued = "none"
                /\ current_volume' = current_volume
                /\ current_brightness' = current_brightness
          /\ current_volume' \in 0..100
          /\ current_brightness' \in 0..100]_vars

\* C33 witness: set_brightness(150) stored 100 while enabled; set_volume(150)
\* with volume control disabled returned False and did nothing.
C33_Witness ==
    /\ ~action_config.volume_control
    /\ last_call = [method |-> "set_volume", level |-> 150,
                    returned |-> FALSE, issued |-> "none"]
    /\ current_volume = 50
    /\ current_brightness = 100

\* C32: after any sequence of callbacks the log has at most max_log_size
\* entries and holds exactly the latest min(n, max_log_size) of the n events
\* of a kind other than NONE, the newest first; a callback with an event of
\* kind NONE leaves the log as it was and an event of another kind is the
\* first entry after its callback.
C32_LogBoundedNewestFirst ==
    [][/\ Len(gesture_log') <= max_log_size
       /\ Len(gesture_log') = Min(logged', max_log_size)
       /\ \A i \in 1..Len(gesture_log') :
             /\ gesture_log'[i].serial = logged' - i + 1
             /\ gesture_log'[i].gesture = KindOf(logged' - i + 1)
             /\ gesture_log'[i].gesture # NONE
       /\ (last_event' # last_event) =>
             IF last_event'.gesture = NONE
             THEN gesture_log' = gesture_log
             ELSE /\ gesture_log' # <<>>
                  /\ gesture_log'[1].gesture = last_event'.gesture
                  /\ gesture_log'[1].serial = logged + 1]_vars

\* C32 witness: 51 events were logged, the log holds the events 51 down to
\* 2, and the callback called last, with an event of kind NONE, added
\* nothing.
C32_Witness ==
    /\ logged = 51
    /\ Len(gesture_log) = max_log_size
    /\ gesture_log[1].serial = 51
    /\ gesture_log[max_log_size].serial = 2
    /\ last_event.gesture = NONE

\* The action of the standalone loop that matches a gesture of the engine.
ActionFor(g) ==
    CASE g = SWIPE_RIGHT -> "Previous Desktop"
      [] g = SWIPE_LEFT -> "Next Desktop"
      [] g = SWIPE_UP -> "New Desktop"
      [] OTHER -> "none"

\* C31: fed the same single-hand frames under equal threshold, window and
\* cooldown, engine and standalone loop agree frame by frame: the engine
\* emits SwipeRight, SwipeLeft or SwipeUp exactly when the loop triggers
\* Previous Desktop, Next Desktop or New Desktop, and after every frame the
\* three history lists and last_trigger_time of the two coincide.
C31_EngineMatchesStandalone ==
    [][HandProcessed =>
          /\ dc_action' = ActionFor(LastResult(gestures').gesture)
          /\ dc_history_x' = history_x'
          /\ dc_history_y' = history_y'
          /\ dc_history_time' = history_time'
          /\ dc_last_trigger_time' = last_trigger_time']_vars
====
